---- MODULE Spec2Model ----
(***************************************************************************)
(* Model of app_enrolment.py: the Aadhaar enrolment dashboard.             *)
(*                                                                         *)
(* The script is re-run top to bottom on every user interaction (a render  *)
(* pass).  load_data is memoised by st.cache_data; everything after it is  *)
(* recomputed from the cached table on every pass.  st.stop() ends the     *)
(* pass.  Strings are sequences of one-character strings.                  *)
(***************************************************************************)
EXTENDS Integers, Sequences, FiniteSets, TLC

VARIABLES
    num,             \* argument handed to format_indian
    text,            \* string returned by format_indian, <<>> before the call
    disk,            \* the files matching Datasets/DF_ENROLMENT_*.csv
    cache,           \* st.cache_data entry of load_data: <<>> or <<table>>
    hit,             \* this pass's call of load_data was served by the cache
    reads,           \* number of executions of the body of load_data
    warnings,        \* "Could not load" warnings of load_data (file positions)
    pc,              \* position of the script in the current render pass
    df,              \* the table load_data returned to this pass
    level,           \* sidebar: analysis level, "" before the widget
    state,           \* sidebar: selected state, None before the widget
    district,        \* sidebar: selected district, None before the widget
    df_region,       \* the filtered table
    message,         \* st.error / st.warning text that ended the pass, or ""
    shown,           \* the figures and views rendered in this pass
    total_enrol_sum, \* the headline figure
    headline,        \* the headline figure as shown, format_indian of it
    monthly_total,
    monthly_age,
    pincode_table,
    sub_total,
    sub_age,
    daily_total,
    monthly_pct

fmtvars == <<num, text>>

loadvars == <<disk, cache, reads, warnings>>

selvars == <<level, state, district>>

viewvars == <<total_enrol_sum, headline, monthly_total, monthly_age,
              pincode_table, sub_total, sub_age, daily_total, monthly_pct>>

vars == <<fmtvars, loadvars, hit, pc, df, selvars, df_region, message, shown,
          viewvars>>

(***************************************************************************)
(* Bounds of the formatter inputs.                                         *)
(***************************************************************************)
MaxDense == 1200      \* every integer 0..MaxDense is formatted
MaxDigits == 8        \* longest sparse input, in decimal digits
DigitSet == {0, 1, 9} \* digits of the sparse inputs

(***************************************************************************)
(* Python string primitives used by format_indian.                         *)
(***************************************************************************)
DigitChars == <<"0", "1", "2", "3", "4", "5", "6", "7", "8", "9">>

\* str(n) for n >= 0
RECURSIVE Str(_)
Str(n) == IF n < 10 THEN <<DigitChars[n + 1]>>
          ELSE Append(Str(n \div 10), DigitChars[(n % 10) + 1])

DigitVal(c) == CHOOSE d \in 0..9 : DigitChars[d + 1] = c

\* int(s) for a non-empty digit string
RECURSIVE ParseInt(_)
ParseInt(s) == IF Len(s) = 0 THEN 0
          ELSE 10 * ParseInt(SubSeq(s, 1, Len(s) - 1)) + DigitVal(s[Len(s)])

\* s.zfill(w)
RECURSIVE zfill(_, _)
zfill(s, w) == IF Len(s) >= w THEN s ELSE zfill(<<"0">> \o s, w)

\* s.lstrip(c)
RECURSIVE lstrip(_, _)
lstrip(s, c) == IF Len(s) > 0 /\ s[1] = c THEN lstrip(Tail(s), c) ELSE s

\* the while loop of format_indian
RECURSIVE PeelPairs(_, _)
PeelPairs(n, result) ==
    IF n > 0
    THEN PeelPairs(n \div 100, zfill(Str(n % 100), 2) \o <<",">> \o result)
    ELSE result

\* mutant: the two-digit group is not zero-padded
RECURSIVE PeelPairsNoPad(_, _)
PeelPairsNoPad(n, result) ==
    IF n > 0
    THEN PeelPairsNoPad(n \div 100, Str(n % 100) \o <<",">> \o result)
    ELSE result

format_indian_nopad(n) ==
    IF n < 1000 THEN Str(n)
    ELSE LET s == Str(n)
         IN  lstrip(lstrip(PeelPairsNoPad(ParseInt(SubSeq(s, 1, Len(s) - 3)),
                                          SubSeq(s, Len(s) - 2, Len(s))),
                           "0"), ",")

format_indian(n) ==
    IF n < 1000 THEN Str(n)
    ELSE LET s == Str(n)
         IN  lstrip(lstrip(PeelPairs(ParseInt(SubSeq(s, 1, Len(s) - 3)),
                                     SubSeq(s, Len(s) - 2, Len(s))),
                           "0"), ",")

(***************************************************************************)
(* Cells and tables.  A cell is a sequence: a text cell is its characters, *)
(* a numeric cell is <<n>>, and the empty sequence is a missing value      *)
(* (an empty CSV field, NaN, NaT).  A table is its set of column names and *)
(* its sequence of rows, each row a function from column name to cell.     *)
(***************************************************************************)
NaN == <<>>

EmptyTable == [cols |-> {}, rows |-> <<>>]

age_cols == <<"age_0_5", "age_5_17", "age_18_greater">>

\* characters that occur in keys, in code-point order
CharOrder == <<"-", "0", "1", "2", "3", "4", "5", "6", "7", "8", "9",
               "A", "B", "N", "T", "X", "Y", "a">>

Ord(c) == CHOOSE i \in 1..Len(CharOrder) : CharOrder[i] = c

\* a < b for Python strings
RECURSIVE StrLess(_, _)
StrLess(a, b) ==
    IF Len(b) = 0 THEN FALSE
    ELSE IF Len(a) = 0 THEN TRUE
    ELSE IF a[1] = b[1] THEN StrLess(Tail(a), Tail(b))
    ELSE Ord(a[1]) < Ord(b[1])

\* a < b for two key cells: numbers by value, text by code point
KeyLess(a, b, numeric) == IF numeric THEN a[1] < b[1] ELSE StrLess(a, b)

\* sorted(S): the keys of S in ascending order
RECURSIVE SortKeys(_, _)
SortKeys(S, numeric) ==
    IF S = {} THEN <<>>
    ELSE LET m == CHOOSE x \in S : \A y \in S \ {x} : KeyLess(x, y, numeric)
         IN  <<m>> \o SortKeys(S \ {m}, numeric)

Range(s) == {s[i] : i \in 1..Len(s)}

RECURSIVE SeqSum(_)
SeqSum(s) == IF Len(s) = 0 THEN 0 ELSE s[1] + SeqSum(Tail(s))

(***************************************************************************)
(* Dates.  pd.to_datetime(errors='coerce') turns a date text into a        *)
(* timestamp, or into NaT when the text is not a calendar date.  A         *)
(* timestamp is <<year * 10000 + month * 100 + day>>.                      *)
(***************************************************************************)
IsDigit(c) == \E d \in 0..9 : DigitChars[d + 1] = c

IsLeap(y) == (y % 4 = 0 /\ y % 100 # 0) \/ y % 400 = 0

DaysInMonth(y, m) ==
    IF m \in {1, 3, 5, 7, 8, 10, 12} THEN 31
    ELSE IF m \in {4, 6, 9, 11} THEN 30
    ELSE IF IsLeap(y) THEN 29 ELSE 28

to_datetime(cell) ==
    IF /\ Len(cell) = 10
       /\ cell[5] = "-" /\ cell[8] = "-"
       /\ \A i \in {1, 2, 3, 4, 6, 7, 9, 10} : IsDigit(cell[i])
    THEN LET y == ParseInt(SubSeq(cell, 1, 4))
             m == ParseInt(SubSeq(cell, 6, 7))
             d == ParseInt(SubSeq(cell, 9, 10))
         IN  IF m \in 1..12 /\ d \in 1..DaysInMonth(y, m)
             THEN <<y * 10000 + m * 100 + d>>
             ELSE NaN
    ELSE NaN

\* .dt.to_period("M").astype(str): "YYYY-MM", and "NaT" for NaT
to_period_M(ts) ==
    IF ts = NaN THEN <<"N", "a", "T">>
    ELSE zfill(Str(ts[1] \div 10000), 4) \o <<"-">>
         \o zfill(Str((ts[1] \div 100) % 100), 2)

(***************************************************************************)
(* load_data, lines 59-93: what one execution of the function body does    *)
(* with the files matched by the glob.  A file is [ok, cols, rows]; ok is  *)
(* FALSE when pd.read_csv raises on it.                                    *)
(***************************************************************************)
NoFilesMsg == "No enrolment data files found"
NoLoadMsg == "No data could be loaded from CSV files"
LoadErrorMsg == "Error loading data"
NoDisplayMsg == "No data available to display"
NoStateMsg == "No state data available"
NoDistrictMsg == "No district data available"
NoFilterMsg == "No data available for selected filters."
NoAgeColsMsg == "Required age columns not found in data"

\* the files read_csv parsed, in glob order (df_list)
ParsedFiles(files) == SelectSeq(files, LAMBDA f : f.ok)

\* one "Could not load" warning per file read_csv failed on (by position)
RECURSIVE LoadWarnings(_, _)
LoadWarnings(files, i) ==
    IF i > Len(files) THEN <<>>
    ELSE (IF files[i].ok THEN <<>> ELSE <<i>>) \o LoadWarnings(files, i + 1)

\* pd.concat(df_list, ignore_index=True): union of the columns, all rows in
\* order, a column a file lacks filled with NaN
RECURSIVE ConcatRows(_, _)
ConcatRows(df_list, cols) ==
    IF Len(df_list) = 0 THEN <<>>
    ELSE LET f == df_list[1]
             padded == [i \in 1..Len(f.rows) |->
                          [c \in cols |-> IF c \in f.cols THEN f.rows[i][c]
                                          ELSE NaN]]
         IN  padded \o ConcatRows(Tail(df_list), cols)

concat(df_list) ==
    LET cols == UNION {df_list[i].cols : i \in 1..Len(df_list)}
    IN  [cols |-> cols, rows |-> ConcatRows(df_list, cols)]

\* mutant: rows with an unparseable date are kept
dropna_date_keep(rows) == rows

\* df.dropna(subset=['date'])
dropna_date(rows) == SelectSeq(rows, LAMBDA r : r["date"] # NaN)

\* lines 84-89 on the concatenated table
ParseDates(t) ==
    LET dated == [i \in 1..Len(t.rows) |->
                    [t.rows[i] EXCEPT !["date"] = to_datetime(@)]]
        kept == dropna_date(dated)
    IN  [cols |-> t.cols \cup {"month"},
         rows |-> [i \in 1..Len(kept) |->
                     [c \in t.cols \cup {"month"} |->
                        IF c = "month" THEN to_period_M(kept[i]["date"])
                        ELSE kept[i][c]]]]

\* mutant: no per-file try/except, one unreadable file aborts the load
load_data_body_abort(files) ==
    IF Len(files) = 0
    THEN [stop |-> TRUE, msg |-> NoFilesMsg, warn |-> <<>>, table |-> EmptyTable]
    ELSE IF Len(ParsedFiles(files)) < Len(files)
    THEN [stop |-> TRUE, msg |-> LoadErrorMsg, warn |-> <<>>, table |-> EmptyTable]
    ELSE IF "date" \notin concat(ParsedFiles(files)).cols
    THEN [stop |-> TRUE, msg |-> LoadErrorMsg, warn |-> <<>>, table |-> EmptyTable]
    ELSE [stop |-> FALSE, msg |-> "", warn |-> <<>>,
          table |-> ParseDates(concat(ParsedFiles(files)))]

load_data_body(files) ==
    IF Len(files) = 0
    THEN [stop |-> TRUE, msg |-> NoFilesMsg, warn |-> <<>>, table |-> EmptyTable]
    ELSE IF Len(ParsedFiles(files)) = 0
    THEN [stop |-> TRUE, msg |-> NoLoadMsg, warn |-> LoadWarnings(files, 1),
          table |-> EmptyTable]
    ELSE IF "date" \notin concat(ParsedFiles(files)).cols
    THEN [stop |-> TRUE, msg |-> LoadErrorMsg, warn |-> LoadWarnings(files, 1),
          table |-> EmptyTable]
    ELSE [stop |-> FALSE, msg |-> "", warn |-> LoadWarnings(files, 1),
          table |-> ParseDates(concat(ParsedFiles(files)))]

(***************************************************************************)
(* Sidebar options and the region filter, lines 113-150.                   *)
(***************************************************************************)
None == <<>>

Levels == {"National", "State", "District"}

\* df[col].dropna().unique() of the given rows
unique_dropna(rows, col) == {rows[i][col] : i \in 1..Len(rows)} \ {NaN}

\* rows whose cell in col equals v (a comparison with NaN is never true)
RowsEq(rows, col, v) ==
    SelectSeq(rows, LAMBDA r : r[col] # NaN /\ r[col] = v)

\* line 116
StateOptions(t) == SortKeys(unique_dropna(t.rows, "state"), FALSE)

\* line 124
DistrictOptions(t, st) ==
    SortKeys(unique_dropna(RowsEq(t.rows, "state", st), "district"), FALSE)

\* mutant: the district filter forgets the state
region_filter_district_only(t, lv, st, di) ==
    IF lv = "State" THEN [t EXCEPT !.rows = RowsEq(t.rows, "state", st)]
    ELSE IF lv = "District"
    THEN [t EXCEPT !.rows = RowsEq(t.rows, "district", di)]
    ELSE t

\* lines 134-146: df_region
region_filter(t, lv, st, di) ==
    IF lv = "State" THEN [t EXCEPT !.rows = RowsEq(t.rows, "state", st)]
    ELSE IF lv = "District"
    THEN [t EXCEPT !.rows = RowsEq(RowsEq(t.rows, "state", st), "district", di)]
    ELSE t

(***************************************************************************)
(* Aggregation, lines 158-353.  A view is a sequence of records; the       *)
(* grouping column of a view is its field key.                             *)
(***************************************************************************)
\* line 159
available_cols_of(t) == SelectSeq(age_cols, LAMBDA c : c \in t.cols)

\* mutant of the check of line 161: the pass goes on without age columns
MissingColumnsIgnored(available) == FALSE

\* line 161
MissingColumns(available) == Len(available) = 0

\* a numeric cell as summed by pandas: NaN is skipped
Val(cell) == IF cell = NaN THEN 0 ELSE cell[1]

\* the sum of the given columns over the given rows
RECURSIVE ColsSum(_, _)
ColsSum(rows, cols) ==
    IF Len(rows) = 0 THEN 0
    ELSE SeqSum([j \in 1..Len(cols) |-> Val(rows[1][cols[j]])])
         + ColsSum(Tail(rows), cols)

\* mutant: group keys in order of first appearance (groupby(sort=False))
RECURSIVE FirstSeen(_, _)
FirstSeen(rows, col) ==
    IF Len(rows) = 0 THEN <<>>
    ELSE LET k == rows[1][col]
         IN  (IF k = NaN THEN <<>> ELSE <<k>>)
             \o FirstSeen(SelectSeq(Tail(rows), LAMBDA r : r[col] # k), col)

groupby_keys_unsorted(rows, col, numeric) == FirstSeen(rows, col)

\* the group keys of df.groupby(col): distinct non-NaN values, ascending
groupby_keys(rows, col, numeric) ==
    SortKeys(unique_dropna(rows, col), numeric)

\* mutant: the headline is not halved
total_enrol_sum_of_raw(t, available) == ColsSum(t.rows, available)

\* line 165: int(df_region[available_cols].sum().sum() / 2)
total_enrol_sum_of(t, available) == ColsSum(t.rows, available) \div 2

\* groupby(col)[available].sum().sum(axis=1).reset_index(name="registrations")
group_total(t, col, numeric, available) ==
    LET keys == groupby_keys(t.rows, col, numeric)
    IN  [i \in 1..Len(keys) |->
           [key |-> keys[i],
            registrations |-> ColsSum(RowsEq(t.rows, col, keys[i]), available)]]

\* lines 30-41
format_age_group(col_name) ==
    CASE col_name = "age_0_5" -> "Age 0-5"
      [] col_name = "age_5_17" -> "Age 5-17"
      [] col_name = "age_18_greater" -> "Age 18+"
      [] col_name = "bio_age_5_17" -> "Age 5-17"
      [] col_name = "bio_age_17_" -> "Age 17+"
      [] col_name = "demo_age_5_17" -> "Age 5-17"
      [] col_name = "demo_age_17_" -> "Age 17+"
      [] OTHER -> col_name

\* groupby(col)[available].sum().reset_index().melt(...): one block of rows
\* per age column, each block in group-key order; labels from format_age_group
group_by_age(t, col, numeric, available) ==
    LET keys == groupby_keys(t.rows, col, numeric)
        n == Len(keys)
    IN  [j \in 1..(n * Len(available)) |->
           LET c == available[((j - 1) \div n) + 1]
               k == keys[((j - 1) % n) + 1]
           IN  [key |-> k,
                age_group |-> format_age_group(c),
                registrations |-> ColsSum(RowsEq(t.rows, col, k), <<c>>)]]

\* mutant: ascending sort
sort_values_ascending(view) ==
    {s \in [1..Len(view) -> Range(view)] :
        /\ Range(s) = Range(view)
        /\ \A i, j \in 1..Len(view) :
              i < j => s[i].registrations <= s[j].registrations}

\* .sort_values("registrations", ascending=False): the sort is not stable,
\* so every descending arrangement of the rows is a possible outcome
sort_values_descending(view) ==
    {s \in [1..Len(view) -> Range(view)] :
        /\ Range(s) = Range(view)
        /\ \A i, j \in 1..Len(view) :
              i < j => s[i].registrations >= s[j].registrations}

\* lines 318-324: per-date sums, then the running sum
daily_total_of(t, available) ==
    LET days == group_total(t, "date", TRUE, available)
    IN  [i \in 1..Len(days) |->
           [key |-> days[i].key,
            cumulative_registrations |->
                SeqSum([j \in 1..i |-> days[j].registrations])]]

\* lines 342-353: the share of each age column in its month, as the
\* fraction <<100 * value, month total>>; NaN when the month total is 0
monthly_pct_of(t, available) ==
    LET byage == group_by_age(t, "month", FALSE, available)
    IN  [j \in 1..Len(byage) |->
           LET tot == ColsSum(RowsEq(t.rows, "month", byage[j].key), available)
           IN  [key |-> byage[j].key,
                age_group |-> byage[j].age_group,
                percentage |-> IF tot = 0 THEN NaN
                               ELSE <<100 * byage[j].registrations, tot>>]]

\* line 242: the totals of the pincode table are shown through format_indian
pincode_format(view) ==
    [i \in 1..Len(view) |->
        [key |-> view[i].key,
         total_registrations |-> format_indian(view[i].registrations)]]

(***************************************************************************)
(* Source files.  Rows are drawn from a fixed pool; a file keeps the cells *)
(* of the columns its header has.  Every header has state and district.    *)
(***************************************************************************)
MaxFiles == 2   \* most files in the Datasets directory
MaxRows == 2    \* most rows over all files
MaxReads == 2   \* most executions of the body of load_data

D_2023_01_05 == <<"2", "0", "2", "3", "-", "0", "1", "-", "0", "5">>
D_2023_01_20 == <<"2", "0", "2", "3", "-", "0", "1", "-", "2", "0">>
D_2022_12_31 == <<"2", "0", "2", "2", "-", "1", "2", "-", "3", "1">>
D_2023_02_03 == <<"2", "0", "2", "3", "-", "0", "2", "-", "0", "3">>
D_2023_02_30 == <<"2", "0", "2", "3", "-", "0", "2", "-", "3", "0">>

Row(d, s, di, p, a, b, c) ==
    [date |-> d, state |-> s, district |-> di, pincode |-> p,
     age_0_5 |-> <<a>>, age_5_17 |-> <<b>>, age_18_greater |-> <<c>>]

RowAX == Row(D_2023_01_05, <<"A">>, <<"X">>, <<110001>>, 10, 20, 30)
RowAY == Row(D_2023_01_20, <<"A">>, <<"Y">>, <<110002>>, 5, 5, 10)
RowBX == Row(D_2022_12_31, <<"B">>, <<"X">>, <<560001>>, 30, 20, 11)
RowNoState == Row(D_2023_02_03, NaN, <<"X">>, <<110001>>, 1, 0, 0)
RowNoDistrict == Row(D_2023_02_03, <<"B">>, NaN, NaN, 0, 2, 0)
RowBadDate == Row(D_2023_02_30, <<"A">>, <<"X">>, <<110001>>, 7, 0, 0)

RowPool == {RowAX, RowAY, RowBX, RowNoState, RowNoDistrict, RowBadDate}

\* rows of the files whose headers vary
LoadPool == {RowAX, RowBadDate}

FullHeader == {"date", "state", "district", "pincode",
               "age_0_5", "age_5_17", "age_18_greater"}

Headers == {FullHeader,
            FullHeader \ {"date"},
            FullHeader \ {"age_0_5", "age_5_17", "age_18_greater"},
            FullHeader \ {"pincode", "age_5_17"}}

CorruptFile == [ok |-> FALSE, cols |-> {}, rows |-> <<>>]

CsvFile(header, rows) ==
    [ok |-> TRUE, cols |-> header,
     rows |-> [i \in 1..Len(rows) |-> [c \in header |-> rows[i][c]]]]

RowSeqs(pool) == UNION {[1..k -> pool] : k \in 0..MaxRows}

\* the ways of cutting a row sequence into m consecutive parts
RECURSIVE Split(_, _)
Split(s, m) ==
    IF m = 1 THEN {<<s>>}
    ELSE UNION {{<<SubSeq(s, 1, i)>> \o rest :
                    rest \in Split(SubSeq(s, i + 1, Len(s)), m - 1)} :
                i \in 0..Len(s)}

FileChoices(rows, headers) ==
    {CsvFile(h, rows) : h \in headers}
    \cup (IF Len(rows) = 0 THEN {CorruptFile} ELSE {})

RECURSIVE Directories(_, _)
Directories(parts, headers) ==
    IF Len(parts) = 0 THEN {<<>>}
    ELSE {<<f>> \o rest : f \in FileChoices(parts[1], headers),
                          rest \in Directories(Tail(parts), headers)}

DisksOf(pool, headers) ==
    UNION {Directories(parts, headers) :
              parts \in UNION {Split(s, m) : s \in RowSeqs(pool),
                                            m \in 1..MaxFiles}}

Disks == {<<>>} \cup DisksOf(LoadPool, Headers) \cup DisksOf(RowPool, {FullHeader})

(***************************************************************************)
(* The render pass.                                                        *)
(***************************************************************************)
PassReset ==
    /\ df = EmptyTable
    /\ level = ""
    /\ state = None
    /\ district = None
    /\ df_region = EmptyTable
    /\ message = ""
    /\ shown = {}
    /\ total_enrol_sum = 0
    /\ headline = <<>>
    /\ monthly_total = <<>>
    /\ monthly_age = <<>>
    /\ pincode_table = <<>>
    /\ sub_total = <<>>
    /\ sub_age = <<>>
    /\ daily_total = <<>>
    /\ monthly_pct = <<>>

Init ==
    /\ num = 0
    /\ text = <<>>
    /\ disk \in Disks
    /\ cache = <<>>
    /\ reads = 0
    /\ hit = FALSE
    /\ warnings = <<>>
    /\ pc = "start"
    /\ PassReset

\* st.error / st.warning followed by st.stop()
Stop(msg) ==
    /\ message' = msg
    /\ pc' = "stopped"

\* mutant: load_data is not memoised
cache_hit_never(c) == FALSE

\* line 57: st.cache_data has an entry for load_data()
cache_hit(c) == Len(c) = 1

\* lines 57-101: df = load_data(), then the empty check
LoadData ==
    /\ pc = "start"
    /\ IF cache_hit(cache)
       THEN /\ hit' = TRUE
            /\ df' = cache[1]
            /\ UNCHANGED <<cache, reads, warnings>>
            /\ IF Len(cache[1].rows) = 0
               THEN Stop(NoDisplayMsg)
               ELSE pc' = "level" /\ UNCHANGED message
       ELSE /\ reads < MaxReads
            /\ reads' = reads + 1
            /\ hit' = FALSE
            /\ LET out == load_data_body(disk)
               IN  /\ warnings' = out.warn
                   /\ df' = out.table
                   /\ IF out.stop
                      THEN Stop(out.msg) /\ UNCHANGED cache
                      ELSE /\ cache' = <<out.table>>
                           /\ IF Len(out.table.rows) = 0
                              THEN Stop(NoDisplayMsg)
                              ELSE pc' = "level" /\ UNCHANGED message
    /\ UNCHANGED <<fmtvars, disk, selvars, df_region, shown, viewvars>>

\* lines 108-121: the level widget, then the state options
SelectLevel(lv) ==
    /\ pc = "level"
    /\ level' = lv
    /\ IF lv = "National"
       THEN pc' = "filter" /\ UNCHANGED message
       ELSE IF Len(StateOptions(df)) > 0
            THEN pc' = "state" /\ UNCHANGED message
            ELSE Stop(NoStateMsg)
    /\ UNCHANGED <<fmtvars, loadvars, hit, df, state, district, df_region, shown,
                   viewvars>>

\* lines 118, 123-129: the state widget, then the district options
SelectState(st) ==
    /\ pc = "state"
    /\ st \in Range(StateOptions(df))
    /\ state' = st
    /\ IF level = "State"
       THEN pc' = "filter" /\ UNCHANGED message
       ELSE IF Len(DistrictOptions(df, st)) > 0
            THEN pc' = "district" /\ UNCHANGED message
            ELSE Stop(NoDistrictMsg)
    /\ UNCHANGED <<fmtvars, loadvars, hit, df, level, district, df_region, shown,
                   viewvars>>

\* line 126: the district widget
SelectDistrict(di) ==
    /\ pc = "district"
    /\ di \in Range(DistrictOptions(df, state))
    /\ district' = di
    /\ pc' = "filter"
    /\ UNCHANGED <<fmtvars, loadvars, hit, df, level, state, df_region, message,
                   shown, viewvars>>

\* lines 134-150
FilterData ==
    /\ pc = "filter"
    /\ df_region' = region_filter(df, level, state, district)
    /\ IF Len(df_region'.rows) = 0
       THEN Stop(NoFilterMsg)
       ELSE pc' = "monthly" /\ UNCHANGED message
    /\ UNCHANGED <<fmtvars, loadvars, hit, df, selvars, shown, viewvars>>

\* lines 155-223: age columns, headline, monthly total, monthly by age
MonthlyViews ==
    /\ pc = "monthly"
    /\ LET available == available_cols_of(df_region)
       IN  IF MissingColumns(available)
           THEN /\ Stop(NoAgeColsMsg)
                /\ UNCHANGED <<shown, total_enrol_sum, headline, monthly_total,
                               monthly_age>>
           ELSE /\ total_enrol_sum' = total_enrol_sum_of(df_region, available)
                /\ headline' = format_indian(total_enrol_sum')
                /\ monthly_total' = group_total(df_region, "month", FALSE,
                                                available)
                /\ monthly_age' = group_by_age(df_region, "month", FALSE,
                                               available)
                /\ shown' = shown \cup {"headline", "monthly_total",
                                        "monthly_age"}
                /\ pc' = "sub"
                /\ UNCHANGED message
    /\ UNCHANGED <<fmtvars, loadvars, hit, df, selvars, df_region, pincode_table,
                   sub_total, sub_age, daily_total, monthly_pct>>

\* lines 228-311: the pincode table at District level, else the
\* sub-territory total and the sub-territory by age
SubTerritoryViews ==
    /\ pc = "sub"
    /\ LET available == available_cols_of(df_region)
           sub_col == IF level = "National" THEN "state" ELSE "district"
       IN  IF level = "District"
           THEN /\ IF "pincode" \in df_region.cols
                   THEN /\ \E s \in sort_values_descending(
                                      group_total(df_region, "pincode", TRUE,
                                                  available)) :
                              pincode_table' = pincode_format(s)
                        /\ shown' = shown \cup {"pincode_table"}
                   ELSE UNCHANGED <<pincode_table, shown>>
                /\ UNCHANGED <<sub_total, sub_age>>
           ELSE /\ \E s \in sort_values_descending(
                              group_total(df_region, sub_col, FALSE,
                                          available)) :
                      sub_total' = s
                /\ sub_age' = group_by_age(df_region, sub_col, FALSE, available)
                /\ shown' = shown \cup {"sub_total", "sub_age"}
                /\ UNCHANGED pincode_table
    /\ pc' = "trend"
    /\ UNCHANGED <<fmtvars, loadvars, hit, df, selvars, df_region, message,
                   total_enrol_sum, headline, monthly_total, monthly_age,
                   daily_total, monthly_pct>>

\* lines 316-378: cumulative daily, percentage share, footer
TrendViews ==
    /\ pc = "trend"
    /\ LET available == available_cols_of(df_region)
       IN  /\ daily_total' = daily_total_of(df_region, available)
           /\ monthly_pct' = monthly_pct_of(df_region, available)
    /\ shown' = shown \cup {"daily_total", "monthly_pct"}
    /\ pc' = "done"
    /\ UNCHANGED <<fmtvars, loadvars, hit, df, selvars, df_region, message,
                   total_enrol_sum, headline, monthly_total, monthly_age,
                   pincode_table, sub_total, sub_age>>

\* a user interaction re-runs the script from the top
Rerun ==
    /\ pc \in {"done", "stopped"}
    /\ pc' = "start"
    /\ hit' = FALSE
    /\ df' = EmptyTable
    /\ level' = ""
    /\ state' = None
    /\ district' = None
    /\ df_region' = EmptyTable
    /\ message' = ""
    /\ shown' = {}
    /\ total_enrol_sum' = 0
    /\ headline' = <<>>
    /\ monthly_total' = <<>>
    /\ monthly_age' = <<>>
    /\ pincode_table' = <<>>
    /\ sub_total' = <<>>
    /\ sub_age' = <<>>
    /\ daily_total' = <<>>
    /\ monthly_pct' = <<>>
    /\ UNCHANGED <<fmtvars, loadvars>>

Next ==
    \/ LoadData
    \/ \E lv \in Levels : SelectLevel(lv)
    \/ \E st \in unique_dropna(df.rows, "state") : SelectState(st)
    \/ \E di \in unique_dropna(df.rows, "district") : SelectDistrict(di)
    \/ FilterData
    \/ MonthlyViews
    \/ SubTerritoryViews
    \/ TrendViews
    \/ Rerun

Spec == Init /\ [][Next]_vars

(***************************************************************************)
(* Formatter inputs.                                                       *)
(***************************************************************************)
RECURSIVE FromDigits(_)
FromDigits(ds) == IF Len(ds) = 0 THEN 0
                  ELSE 10 * FromDigits(SubSeq(ds, 1, Len(ds) - 1)) + ds[Len(ds)]

SparseNums == {FromDigits(ds) : ds \in [1..MaxDigits -> DigitSet]}

InputNums == (0..MaxDense) \cup SparseNums \cup {12345678}

InitFormat ==
    /\ num \in InputNums
    /\ text = <<>>
    /\ disk = <<>>
    /\ cache = <<>>
    /\ reads = 0
    /\ hit = FALSE
    /\ warnings = <<>>
    /\ pc = "start"
    /\ PassReset

CallFormat ==
    /\ text = <<>>
    /\ text' = format_indian(num)
    /\ UNCHANGED <<num, loadvars, hit, pc, df, selvars, df_region, message, shown,
                   viewvars>>

NextFormat == CallFormat

SpecFormat == InitFormat /\ [][NextFormat]_vars

(***************************************************************************)
(* C1: format_indian(n), n >= 0: below 1000 the plain decimal string;      *)
(* from 1000 on, the last three digits form the rightmost group and the    *)
(* digits before them are grouped in pairs from the right, the result      *)
(* starts with neither a separator nor a zero, and removing the separators *)
(* gives exactly str(n).                                                   *)
(***************************************************************************)
RemoveSeparators(s) == SelectSeq(s, LAMBDA c : c # ",")

GroupedIndian(s) ==
    /\ Len(s) >= 5
    /\ s[1] \notin {",", "0"}
    /\ \A i \in 2..Len(s) :
          (s[i] = ",") <=> ((Len(s) - i) % 3 = 0 /\ Len(s) - i >= 3)

FormatIndianCorrect ==
    text # <<>> =>
        /\ num < 1000 => text = Str(num)
        /\ num >= 1000 => /\ GroupedIndian(text)
                          /\ RemoveSeparators(text) = Str(num)

FormatIndianWitness ==
    /\ num = 12345678
    /\ text = <<"1", ",", "2", "3", ",", "4", "5", ",", "6", "7", "8">>

(***************************************************************************)
(* Definitions shared by the properties of the dashboard.                  *)
(***************************************************************************)
\* the CSV rows that have a date column and a date that parses, in the
\* order of the files
RECURSIVE RawSurvivors(_)
RawSurvivors(files) ==
    IF Len(files) = 0 THEN <<>>
    ELSE LET f == files[1]
         IN  (IF f.ok /\ "date" \in f.cols
              THEN SelectSeq(f.rows, LAMBDA r : to_datetime(r["date"]) # NaN)
              ELSE <<>>)
             \o RawSurvivors(Tail(files))

AgeVal(r, c, cols) == IF c \in cols /\ c \in DOMAIN r THEN Val(r[c]) ELSE 0

RowAgeTotal(r, cols) ==
    AgeVal(r, "age_0_5", cols) + AgeVal(r, "age_5_17", cols)
    + AgeVal(r, "age_18_greater", cols)

\* the raw sum of the age columns in cols over the rows
AgeTotal(rows, cols) ==
    SeqSum([i \in 1..Len(rows) |-> RowAgeTotal(rows[i], cols)])

ViewSum(view) == SeqSum([i \in 1..Len(view) |-> view[i].registrations])

ViewKeys(view) == [i \in 1..Len(view) |-> view[i].key]

Count(rows, r) == Cardinality({i \in 1..Len(rows) : rows[i] = r})

InRegion(r) ==
    \/ level = "National"
    \/ /\ level = "State"
       /\ r["state"] # NaN /\ r["state"] = state
    \/ /\ level = "District"
       /\ r["state"] # NaN /\ r["state"] = state
       /\ r["district"] # NaN /\ r["district"] = district

SubCol == IF level = "National" THEN "state" ELSE "district"

NoReadableFile == Len(disk) = 0 \/ \A i \in 1..Len(disk) : ~disk[i].ok

NoDateColumn ==
    /\ ~NoReadableFile
    /\ \A i \in 1..Len(disk) : disk[i].ok => "date" \notin disk[i].cols

OneWarningPerUnreadableFile ==
    /\ Range(warnings) = {i \in 1..Len(disk) : ~disk[i].ok}
    /\ Len(warnings) = Cardinality({i \in 1..Len(disk) : ~disk[i].ok})

\* the cached table has one row per surviving CSV row, in order, with the
\* cells of that row
TableFromParsedFiles ==
    LET surv == RawSurvivors(disk)
        t == cache[1]
    IN  /\ Len(t.rows) = Len(surv)
        /\ \A i \in 1..Len(surv) :
              \A c \in DOMAIN surv[i] \ {"date"} : t.rows[i][c] = surv[i][c]

(***************************************************************************)
(* C2 as stated: load_data ends without a table exactly when no file is    *)
(* found or every file fails to parse; in every other case each            *)
(* unreadable file is skipped with one warning and the table holds the     *)
(* rows of all parsed files.                                               *)
(***************************************************************************)
LoadFailsOnlyWithoutReadableFile ==
    reads >= 1 =>
        /\ (Len(cache) = 0) <=> NoReadableFile
        /\ ~NoReadableFile => /\ OneWarningPerUnreadableFile
                              /\ Len(cache) = 1
                              /\ TableFromParsedFiles

(***************************************************************************)
(* C2 amended: load_data ends with an error message and a stop, no table   *)
(* returned, exactly when no file is found, every file fails to parse, or  *)
(* no parsed file has a date column ("Error loading data"); in every other *)
(* case each unreadable file is skipped with one warning, the load is not  *)
(* aborted, and the table holds every row with a parseable date of every   *)
(* parsed file, duplicates across files included.                          *)
(***************************************************************************)
LoadOutcome ==
    reads >= 1 =>
        /\ (Len(cache) = 0) <=> (NoReadableFile \/ NoDateColumn)
        /\ Len(cache) = 0 =>
              /\ pc \in {"start", "stopped"}
              /\ pc = "stopped" =>
                    message = (IF Len(disk) = 0 THEN NoFilesMsg
                               ELSE IF NoReadableFile THEN NoLoadMsg
                               ELSE LoadErrorMsg)
        /\ Len(disk) > 0 => OneWarningPerUnreadableFile
        /\ Len(cache) = 1 =>
              /\ message \notin {NoFilesMsg, NoLoadMsg, LoadErrorMsg}
              /\ TableFromParsedFiles

LoadOutcomeWitness ==
    /\ Len(disk) = 2
    /\ ~disk[1].ok
    /\ disk[2].ok
    /\ warnings = <<1>>
    /\ Len(cache) = 1
    /\ Len(cache[1].rows) >= 1
    /\ pc = "level"

(***************************************************************************)
(* C3: every row of the loaded table has a valid parsed date and its month *)
(* is the year-month of that date; a source row whose date does not parse  *)
(* is dropped without an error and counts in none of the aggregations.     *)
(***************************************************************************)
ValidTimestamp(ts) ==
    /\ (ts \div 100) % 100 \in 1..12
    /\ ts % 100 \in 1..DaysInMonth(ts \div 10000, (ts \div 100) % 100)

MonthIsYearMonth(month, ts) ==
    /\ Len(month) = 7
    /\ month[5] = "-"
    /\ ParseInt(SubSeq(month, 1, 4)) = ts \div 10000
    /\ ParseInt(SubSeq(month, 6, 7)) = (ts \div 100) % 100

DatesParsed(t) ==
    \A i \in 1..Len(t.rows) :
        /\ t.rows[i]["date"] # NaN
        /\ ValidTimestamp(t.rows[i]["date"][1])
        /\ MonthIsYearMonth(t.rows[i]["month"], t.rows[i]["date"][1])

UnparsedDatesDropped ==
    LET raw == SelectSeq(RawSurvivors(disk), InRegion)
        keyed == SelectSeq(raw, LAMBDA r : r[SubCol] # NaN)
        tot == AgeTotal(raw, df.cols)
        months == {to_period_M(to_datetime(raw[i]["date"])) : i \in 1..Len(raw)}
        days == {to_datetime(raw[i]["date"]) : i \in 1..Len(raw)}
    IN  /\ \A t \in {df, df_region} \cup Range(cache) : DatesParsed(t)
        /\ message \notin {LoadErrorMsg} \/ NoDateColumn
        /\ "headline" \in shown =>
              /\ total_enrol_sum = tot \div 2
              /\ ViewSum(monthly_total) = tot
              /\ ViewSum(monthly_age) = tot
              /\ Range(ViewKeys(monthly_total)) = months
        /\ "sub_total" \in shown =>
              /\ ViewSum(sub_total) = AgeTotal(keyed, df.cols)
              /\ ViewSum(sub_age) = AgeTotal(keyed, df.cols)
        /\ "daily_total" \in shown =>
              /\ daily_total[Len(daily_total)].cumulative_registrations = tot
              /\ Range(ViewKeys(daily_total)) = days
              /\ Range(ViewKeys(monthly_pct)) = months

UnparsedDatesDroppedWitness ==
    /\ \E i \in 1..Len(disk) :
          /\ disk[i].ok
          /\ "date" \in disk[i].cols
          /\ \E j \in 1..Len(disk[i].rows) :
                /\ disk[i].rows[j]["date"] = D_2023_02_30
                /\ disk[i].rows[j]["state"] = <<"A">>
    /\ level = "State"
    /\ state = <<"A">>
    /\ "daily_total" \in shown
    /\ Len(df.rows) < Len(disk[1].rows) + (IF Len(disk) = 2 THEN Len(disk[2].rows) ELSE 0)

(***************************************************************************)
(* C4: df_region has exactly the rows of the loaded table at National      *)
(* level, exactly the rows of state S at State level, and exactly the rows *)
(* of state S and district D at District level.                            *)
(***************************************************************************)
FilterDone == pc \in {"monthly", "sub", "trend", "done"}

RegionFilterCorrect ==
    FilterDone =>
        /\ df_region.cols = df.cols
        /\ level = "National" => df_region = df
        /\ \A r \in Range(df.rows) \cup Range(df_region.rows) :
              Count(df_region.rows, r) =
                 (IF InRegion(r) THEN Count(df.rows, r) ELSE 0)
        /\ level \in {"State", "District"} =>
              \A r \in Range(df_region.rows) : r["state"] = state
        /\ level = "District" =>
              \A r \in Range(df_region.rows) : r["district"] = district

RegionFilterWitness ==
    /\ pc = "monthly"
    /\ level = "District"
    /\ state = <<"A">>
    /\ district = <<"X">>
    /\ \E r \in Range(df.rows) : r["state"] = <<"B">> /\ r["district"] = <<"X">>
    /\ \A r \in Range(df_region.rows) : r["state"] = <<"A">>
    /\ Len(df_region.rows) >= 1

(***************************************************************************)
(* C5: once load_data has succeeded, no later step of any render pass      *)
(* reads the source files again or changes the cached table.               *)
(***************************************************************************)
CacheOnce ==
    [][Len(cache) = 1 => (cache' = cache /\ reads' = reads)]_vars

CacheOnceWitness ==
    /\ hit
    /\ reads = 1
    /\ Len(cache) = 1
    /\ pc = "done"
    /\ level = "District"
    /\ df = cache[1]
    /\ Len(df_region.rows) < Len(cache[1].rows)

(***************************************************************************)
(* C6: the headline is the sum of the available age columns over the rows  *)
(* of the selected table, halved and truncated; the monthly total, the     *)
(* sub-territory total and the cumulative view carry the raw sums.         *)
(***************************************************************************)
HeadlineHalvedOnly ==
    LET tot == AgeTotal(df_region.rows, df_region.cols)
    IN  /\ "headline" \in shown =>
              /\ 2 * total_enrol_sum <= tot
              /\ tot < 2 * total_enrol_sum + 2
              /\ headline = format_indian(total_enrol_sum)
              /\ ViewSum(monthly_total) = tot
              /\ \A i \in 1..Len(monthly_total) :
                    monthly_total[i].registrations =
                       AgeTotal(SelectSeq(df_region.rows,
                                   LAMBDA r : r["month"] = monthly_total[i].key),
                                df_region.cols)
        /\ "sub_total" \in shown =>
              \A i \in 1..Len(sub_total) :
                  sub_total[i].registrations =
                     AgeTotal(SelectSeq(df_region.rows,
                                 LAMBDA r : r[SubCol] = sub_total[i].key),
                              df_region.cols)
        /\ "daily_total" \in shown =>
              daily_total[Len(daily_total)].cumulative_registrations = tot

HeadlineHalvedOnlyWitness ==
    /\ disk = <<CsvFile(FullHeader, <<RowAX>>), CsvFile(FullHeader, <<RowAY>>)>>
    /\ level = "National"
    /\ pc = "done"
    /\ total_enrol_sum = 40
    /\ headline = <<"4", "0">>
    /\ monthly_total = <<[key |-> <<"2", "0", "2", "3", "-", "0", "1">>,
                          registrations |-> 80]>>
    /\ sub_total = <<[key |-> <<"A">>, registrations |-> 80]>>
    /\ daily_total[2].cumulative_registrations = 80

(***************************************************************************)
(* C7 as stated: the sub-territory total view is in descending order of    *)
(* registrations and the sub-territory-by-age view lists the               *)
(* sub-territories in that same order.                                     *)
(***************************************************************************)
Descending(view) ==
    \A i, j \in 1..Len(view) :
        i < j => view[i].registrations >= view[j].registrations

\* the sub-territories of the by-age view in their order of first occurrence
SubAgeOrder == SubSeq(ViewKeys(sub_age), 1, Len(sub_total))

SubAgeFollowsTotalOrder ==
    "sub_age" \in shown =>
        /\ Descending(sub_total)
        /\ SubAgeOrder = ViewKeys(sub_total)

(***************************************************************************)
(* C7 amended: the sub-territory total view is in descending order of      *)
(* registrations; the sub-territory-by-age view lists the sub-territories  *)
(* in ascending order of their name, once for each available age column,   *)
(* the age columns in the order age_0_5, age_5_17, age_18_greater.         *)
(***************************************************************************)
SubTerritoryOrder ==
    "sub_age" \in shown =>
        LET n == Len(sub_total)
            available == available_cols_of(df_region)
        IN  /\ Descending(sub_total)
            /\ Range(ViewKeys(sub_total)) = unique_dropna(df_region.rows, SubCol)
            /\ Len(sub_age) = n * Len(available)
            /\ \A j \in 1..Len(sub_age) :
                  /\ sub_age[j].key = SubAgeOrder[((j - 1) % n) + 1]
                  /\ sub_age[j].age_group =
                        format_age_group(available[((j - 1) \div n) + 1])
            /\ \A i, j \in 1..n :
                  i < j => StrLess(SubAgeOrder[i], SubAgeOrder[j])

SubTerritoryOrderWitness ==
    /\ "sub_age" \in shown
    /\ level = "National"
    /\ ViewKeys(sub_total) = <<<<"B">>, <<"A">>>>
    /\ sub_total[1].registrations > sub_total[2].registrations
    /\ SubAgeOrder = <<<<"A">>, <<"B">>>>
    /\ Len(sub_age) = 6

(***************************************************************************)
(* C8: the cumulative daily view has one row per distinct date of the      *)
(* selected table, in strictly ascending date order; the value of a date   *)
(* is the sum of the available age columns over every row dated on or      *)
(* before it, whatever the order of the rows; the values never decrease.   *)
(***************************************************************************)
CumulativeDaily ==
    "daily_total" \in shown =>
        /\ Range(ViewKeys(daily_total)) = unique_dropna(df_region.rows, "date")
        /\ \A i, j \in 1..Len(daily_total) :
              i < j =>
                 /\ daily_total[i].key[1] < daily_total[j].key[1]
                 /\ daily_total[i].cumulative_registrations
                       <= daily_total[j].cumulative_registrations
        /\ \A i \in 1..Len(daily_total) :
              daily_total[i].cumulative_registrations =
                 AgeTotal(SelectSeq(df_region.rows,
                             LAMBDA r : r["date"][1] <= daily_total[i].key[1]),
                          df_region.cols)

CumulativeDailyWitness ==
    /\ "daily_total" \in shown
    /\ Len(daily_total) = 2
    /\ \E i, j \in 1..Len(df_region.rows) :
          i < j /\ df_region.rows[i]["date"][1] > df_region.rows[j]["date"][1]
    /\ daily_total[1].cumulative_registrations
          < daily_total[2].cumulative_registrations

(***************************************************************************)
(* C9: a fatal condition (no state options, no district options for the    *)
(* chosen state, an empty filtered table, no age column) emits a message   *)
(* and stops the pass: no headline and no view is computed in that pass,   *)
(* and the next pass starts again from the cached table.                   *)
(***************************************************************************)
NoViews ==
    /\ shown = {}
    /\ total_enrol_sum = 0
    /\ headline = <<>>
    /\ monthly_total = <<>>
    /\ monthly_age = <<>>
    /\ pincode_table = <<>>
    /\ sub_total = <<>>
    /\ sub_age = <<>>
    /\ daily_total = <<>>
    /\ monthly_pct = <<>>

NoStateOptions == \A r \in Range(df.rows) : r["state"] = NaN

NoDistrictOptions ==
    \A r \in Range(df.rows) : r["state"] = state => r["district"] = NaN

NoAgeColumn == \A i \in 1..Len(age_cols) : age_cols[i] \notin df_region.cols

FatalCondition ==
    \/ level \in {"State", "District"} /\ NoStateOptions
    \/ level = "District" /\ pc \notin {"level", "state"} /\ NoDistrictOptions
    \/ pc \in {"monthly", "sub", "trend", "done"} /\ Len(df_region.rows) = 0
    \/ pc \in {"sub", "trend", "done"} /\ NoAgeColumn

StoppedPass ==
    /\ (pc = "stopped") <=> (message # "")
    /\ pc = "stopped" => NoViews
    /\ FatalCondition => pc = "stopped"
    /\ message = NoStateMsg => NoStateOptions
    /\ message = NoDistrictMsg => NoDistrictOptions
    /\ message = NoFilterMsg => Len(df_region.rows) = 0
    /\ message = NoAgeColsMsg => NoAgeColumn

FatalStopsPass ==
    /\ []StoppedPass
    /\ [][/\ pc = "stopped" => /\ pc' = "start"
                               /\ cache' = cache
                               /\ message' = ""
                               /\ NoViews'
          /\ (pc = "start" /\ Len(cache) = 1) => df' = cache[1]]_vars

FatalStopsPassWitness ==
    /\ hit
    /\ Len(cache) = 1
    /\ pc = "stopped"
    /\ message = NoAgeColsMsg
    /\ df = cache[1]
    /\ Len(df_region.rows) > 0

(***************************************************************************)
(* C10: at National or State level the registrations of the sub-territory  *)
(* total view, summed over the sub-territories, equal the registrations of *)
(* the monthly total view summed over the months.                          *)
(***************************************************************************)
SubTotalsCoverAllRows ==
    "sub_total" \in shown => ViewSum(sub_total) = ViewSum(monthly_total)

====
